---- MODULE Spec2Model ----
(***************************************************************************)
(* The masking engine (scripts/masking_service.py) and the call-lifecycle  *)
(* interceptor (scripts/monitoring.py).                                    *)
(*                                                                         *)
(* A Python string is a sequence of one-character strings.  A Python value *)
(* is a record [kind, n, s, items]: kind names the Python type, n holds an *)
(* int or bool, s the characters of a str, items the entries of a list     *)
(* (k unused), of a dict (k the key, in insertion order) or the attributes *)
(* of a plain object (k the attribute name).                               *)
(*                                                                         *)
(* Where identity matters, lists, dicts and objects live in a heap: a      *)
(* sequence of nodes [kind, items] whose index is the object's address,    *)
(* and a value of kind "ref" holds an address in n.                        *)
(***************************************************************************)
EXTENDS Naturals, Sequences, FiniteSets

VARIABLES source, engine, op, arg, ret, raised, log, heap

vars == <<source, engine, op, arg, ret, raised, log, heap>>

----------------------------------------------------------------------------
(* Bounds of the model *)

\* longest text handed to mask_text
MaxTextLen == 3
\* longest sensitive_terms list of a configuration document
MaxTerms == 2
\* most entries of a generated list or dict payload
MaxWidth == 2
\* most prompts of one on_llm_start event
MaxPrompts == 2
\* most lines the log sink holds before the handlers stop being called
MaxLog == 2
\* most objects the heap holds when a call that allocates is made
MaxObjects == 4

----------------------------------------------------------------------------
(* Characters and strings *)

UpperCase == <<"A","B","C","D","E","F","G","H","I","J","K","L","M",
               "N","O","P","Q","R","S","T","U","V","W","X","Y","Z">>

LowerCase == <<"a","b","c","d","e","f","g","h","i","j","k","l","m",
               "n","o","p","q","r","s","t","u","v","w","x","y","z">>

\* the lower-case letter of every upper-case letter
LowerTable ==
    [c \in {UpperCase[i] : i \in 1..Len(UpperCase)} |->
        LowerCase[CHOOSE i \in 1..Len(UpperCase) : UpperCase[i] = c]]

\* str.lower() of one character; re.IGNORECASE compares characters the same way
LowerChar(c) == IF c \in DOMAIN LowerTable THEN LowerTable[c] ELSE c

\* str.lower()
Lower(s) == [i \in 1..Len(s) |-> LowerChar(s[i])]

\* s[from:to] with 0-based from, exclusive to, both within the string
Slice(s, from, to) == [i \in 1..(to - from) |-> s[from + i]]

\* the term matches the text at 0-based position pos, ignoring case
MatchesAt(term, text, pos) ==
    /\ pos + Len(term) <= Len(text)
    /\ \A i \in 1..Len(term) : LowerChar(term[i]) = LowerChar(text[pos + i])

\* Python's `needle in haystack` on strings
Contains(needle, haystack) ==
    \E pos \in 0..Len(haystack) :
        /\ pos + Len(needle) <= Len(haystack)
        /\ \A i \in 1..Len(needle) : needle[i] = haystack[pos + i]

RECURSIVE Flatten(_)
\* "".join(parts)
Flatten(parts) ==
    IF parts = <<>> THEN <<>> ELSE Head(parts) \o Flatten(Tail(parts))

RECURSIVE JoinWith(_, _)
\* sep.join(parts)
JoinWith(sep, parts) ==
    IF parts = <<>> THEN <<>>
    ELSE IF Len(parts) = 1 THEN parts[1]
    ELSE parts[1] \o sep \o JoinWith(sep, Tail(parts))

----------------------------------------------------------------------------
(* Python values *)

Str(s) == [kind |-> "str", n |-> 0, s |-> s, items |-> <<>>]
Int(n) == [kind |-> "int", n |-> n, s |-> <<>>, items |-> <<>>]
Bool(b) == [kind |-> "bool", n |-> IF b THEN 1 ELSE 0, s |-> <<>>, items |-> <<>>]
None == [kind |-> "none", n |-> 0, s |-> <<>>, items |-> <<>>]
List(vs) == [kind |-> "list", n |-> 0, s |-> <<>>,
             items |-> [i \in 1..Len(vs) |-> [k |-> <<>>, v |-> vs[i]]]]
Dict(kvs) == [kind |-> "dict", n |-> 0, s |-> <<>>, items |-> kvs]
Obj(attrs) == [kind |-> "object", n |-> 0, s |-> <<>>, items |-> attrs]

\* Python truthiness: `not v` is ~Truthy(v)
Truthy(v) ==
    CASE v.kind = "none" -> FALSE
      [] v.kind \in {"int", "bool"} -> v.n # 0
      [] v.kind = "str" -> v.s # <<>>
      [] v.kind \in {"list", "dict"} -> v.items # <<>>
      [] OTHER -> TRUE

----------------------------------------------------------------------------
(* MaskingService: construction *)

\* the three entries of the configuration document
EntryNames == {"sensitive_keys", "sensitive_terms", "token_map"}

\* dict.get(name, default) on the parsed document: a missing entry is empty
ConfigGet(config, name) ==
    IF name \in config.present
    THEN CASE name = "sensitive_keys" -> config.sensitive_keys
           [] name = "sensitive_terms" -> config.sensitive_terms
           [] name = "token_map" -> config.token_map
    ELSE <<>>

\* list.insert keeping the order of sorted(key=len, reverse=True): x goes
\* after every element at least as long, so equal lengths keep their order
InsertByLen(x, sorted) ==
    LET n == Cardinality({i \in 1..Len(sorted) : Len(sorted[i]) >= Len(x)})
    IN  SubSeq(sorted, 1, n) \o <<x>> \o SubSeq(sorted, n + 1, Len(sorted))

RECURSIVE SortFrom(_, _)
SortFrom(terms, sorted) ==
    IF terms = <<>> THEN sorted
    ELSE SortFrom(Tail(terms), InsertByLen(Head(terms), sorted))

\* the terms in configuration order, the sort left out
sorted_terms_unsorted(terms) == terms

\* sorted(self.sensitive_terms, key=len, reverse=True)
sorted_terms(terms) == SortFrom(terms, <<>>)

\* the pattern compiled whatever the list: '|'.join([]) is the empty pattern
compile_pattern_always(terms) ==
    [compiled |-> TRUE,
     alts |-> IF sorted_terms(terms) = <<>> THEN << <<>> >>
              ELSE sorted_terms(terms)]

\* re.compile('|'.join(re.escape(t) for t in sorted_terms), re.IGNORECASE),
\* or None: the alternatives in order, each matched literally
compile_pattern(terms) ==
    IF sorted_terms(terms) # <<>>
    THEN [compiled |-> TRUE, alts |-> sorted_terms(terms)]
    ELSE [compiled |-> FALSE, alts |-> <<>>]

NoEngine(state, error) ==
    [state |-> state, error |-> error, sensitive_keys |-> {},
     sensitive_terms |-> <<>>, token_map |-> <<>>,
     pattern |-> [compiled |-> FALSE, alts |-> <<>>]]

\* open(config_path) and yaml.safe_load(f): a missing file and a malformed
\* document raise; an empty document loads as None, a mapping as a dict
LoadedKind(doc) ==
    CASE doc.kind = "missing" -> "FileNotFoundError"
      [] doc.kind = "malformed" -> "YAMLError"
      [] doc.kind = "empty" -> "none"
      [] doc.kind = "mapping" -> "dict"

\* MaskingService.__init__
MaskingService_init(doc) ==
    LET loaded == LoadedKind(doc)
    IN  IF loaded \in {"FileNotFoundError", "YAMLError"}
        THEN NoEngine("failed", loaded)
        ELSE IF loaded # "dict"
        THEN NoEngine("failed", "AttributeError")   \* self.config.get
        ELSE [state |-> "ready", error |-> "",
              sensitive_keys |->
                 {ConfigGet(doc, "sensitive_keys")[i] :
                     i \in 1..Len(ConfigGet(doc, "sensitive_keys"))},
              sensitive_terms |-> ConfigGet(doc, "sensitive_terms"),
              token_map |-> ConfigGet(doc, "token_map"),
              pattern |-> compile_pattern(ConfigGet(doc, "sensitive_terms"))]

----------------------------------------------------------------------------
(* MaskingService.mask_text *)

Min(S) == CHOOSE x \in S : \A y \in S : x <= y

\* the first alternative, in pattern order, that matches at pos; an empty
\* match is refused right after an empty match at the same position
FirstAlt(alts, text, pos, must_advance) ==
    LET hits == {i \in 1..Len(alts) :
                    /\ MatchesAt(alts[i], text, pos)
                    /\ (Len(alts[i]) > 0 \/ ~must_advance)}
    IN  IF hits = {} THEN 0 ELSE Min(hits)

RECURSIVE finditer(_, _, _, _)
\* the non-overlapping matches of the pattern, left to right, as
\* pattern.sub visits them: [start, len] with a 0-based start
finditer(alts, text, pos, must_advance) ==
    IF pos > Len(text) THEN <<>>
    ELSE LET i == FirstAlt(alts, text, pos, must_advance)
         IN  IF i = 0 THEN finditer(alts, text, pos + 1, FALSE)
             ELSE <<[start |-> pos, len |-> Len(alts[i])]>> \o
                  (IF Len(alts[i]) = 0
                   THEN finditer(alts, text, pos, TRUE)
                   ELSE finditer(alts, text, pos + Len(alts[i]), FALSE))

MASKED_TERM == <<"M","A","S","K","E","D","_","T","E","R","M">>

RECURSIVE TokenFromCaseSensitive(_, _)
\* the lookup without .lower(): `term in original`
TokenFromCaseSensitive(entries, original) ==
    IF entries = <<>> THEN MASKED_TERM
    ELSE IF Contains(entries[1].term, original)
    THEN entries[1].token
    ELSE TokenFromCaseSensitive(Tail(entries), original)

RECURSIVE TokenFrom(_, _)
\* for term, token in self.token_map.items(): the first entry whose term,
\* lowered, is in the lowered match
TokenFrom(entries, original) ==
    IF entries = <<>> THEN MASKED_TERM
    ELSE IF Contains(Lower(entries[1].term), Lower(original))
    THEN entries[1].token
    ELSE TokenFrom(Tail(entries), original)

\* replace_match(match), original = match.group(0)
replace_match(original) ==
    <<"[">> \o TokenFrom(engine.token_map, original) \o <<"]">>

RECURSIVE SubFrom(_, _, _)
\* the text from cursor on, every match replaced by replace_match of it
SubFrom(text, ms, cursor) ==
    IF ms = <<>> THEN Slice(text, cursor, Len(text))
    ELSE Slice(text, cursor, ms[1].start)
         \o replace_match(Slice(text, ms[1].start, ms[1].start + ms[1].len))
         \o SubFrom(text, Tail(ms), ms[1].start + ms[1].len)

\* self.pattern.sub(replace_match, text, count=1): the first match only
pattern_sub_first(text) ==
    LET ms == finditer(engine.pattern.alts, text, 0, FALSE)
    IN  SubFrom(text, IF ms = <<>> THEN <<>> ELSE <<ms[1]>>, 0)

\* self.pattern.sub(replace_match, text)
pattern_sub(text) ==
    SubFrom(text, finditer(engine.pattern.alts, text, 0, FALSE), 0)

\* mask_text(text), for any Python value: [raised, val]
mask_text(text) ==
    IF ~engine.pattern.compiled \/ ~Truthy(text)
    THEN [raised |-> FALSE, val |-> text]
    ELSE IF text.kind # "str"
    THEN [raised |-> TRUE, val |-> None]     \* TypeError from pattern.sub
    ELSE [raised |-> FALSE, val |-> Str(pattern_sub(text.s))]

----------------------------------------------------------------------------
(* MaskingService.mask_structure *)

MASKED_VALUE == <<"[","M","A","S","K","E","D","_","V","A","L","U","E","]">>

RECURSIVE mask_structure_strings_only(_)
\* a sensitive key hides its value only when the value is a string
mask_structure_strings_only(data) ==
    CASE data.kind = "dict" ->
            Dict([i \in 1..Len(data.items) |->
                    IF /\ data.items[i].k \in engine.sensitive_keys
                       /\ data.items[i].v.kind = "str"
                    THEN [k |-> data.items[i].k, v |-> Str(MASKED_VALUE)]
                    ELSE [k |-> data.items[i].k,
                          v |-> mask_structure_strings_only(data.items[i].v)]])
      [] data.kind = "list" ->
            [data EXCEPT !.items =
                [i \in 1..Len(data.items) |->
                    [k |-> <<>>,
                     v |-> mask_structure_strings_only(data.items[i].v)]]]
      [] data.kind = "str" -> mask_text(data).val
      [] OTHER -> data

RECURSIVE mask_structure_dropping(_)
\* a sensitive entry is left out of the new dict instead of being masked
mask_structure_dropping(data) ==
    CASE data.kind = "dict" ->
            Dict([i \in 1..Len(SelectSeq(data.items,
                        LAMBDA e : e.k \notin engine.sensitive_keys)) |->
                    LET e == SelectSeq(data.items,
                               LAMBDA x : x.k \notin engine.sensitive_keys)[i]
                    IN  [k |-> e.k, v |-> mask_structure_dropping(e.v)]])
      [] data.kind = "list" ->
            [data EXCEPT !.items =
                [i \in 1..Len(data.items) |->
                    [k |-> <<>>,
                     v |-> mask_structure_dropping(data.items[i].v)]]]
      [] data.kind = "str" -> mask_text(data).val
      [] OTHER -> data

RECURSIVE mask_structure(_)
mask_structure(data) ==
    CASE data.kind = "dict" ->
            Dict([i \in 1..Len(data.items) |->
                    IF data.items[i].k \in engine.sensitive_keys
                    THEN [k |-> data.items[i].k, v |-> Str(MASKED_VALUE)]
                    ELSE [k |-> data.items[i].k,
                          v |-> mask_structure(data.items[i].v)]])
      [] data.kind = "list" ->
            [data EXCEPT !.items =
                [i \in 1..Len(data.items) |->
                    [k |-> <<>>, v |-> mask_structure(data.items[i].v)]]]
      [] data.kind = "str" -> mask_text(data).val
      [] OTHER -> data

----------------------------------------------------------------------------
(* json.dumps and str(), as the handlers use them *)

DigitChars == <<"0", "1", "2", "3", "4", "5", "6", "7", "8", "9">>

RECURSIVE Digits(_)
\* the decimal digits of a natural number
Digits(n) ==
    IF n < 10 THEN <<DigitChars[n + 1]>>
    ELSE Digits(n \div 10) \o <<DigitChars[(n % 10) + 1]>>

\* json.dumps of a str: quoted, the quote and the backslash escaped
JsonString(s) ==
    <<"\"">>
    \o Flatten([i \in 1..Len(s) |->
                  IF s[i] \in {"\"", "\\"} THEN <<"\\", s[i]>> ELSE <<s[i]>>])
    \o <<"\"">>

RECURSIVE json_dumps(_)
\* json.dumps(v): [raised, s]; a plain object is not JSON serializable
json_dumps(v) ==
    CASE v.kind = "str" -> [raised |-> FALSE, s |-> JsonString(v.s)]
      [] v.kind = "int" -> [raised |-> FALSE, s |-> Digits(v.n)]
      [] v.kind = "bool" ->
            [raised |-> FALSE,
             s |-> IF v.n = 1 THEN <<"t", "r", "u", "e">> ELSE <<"f", "a", "l", "s", "e">>]
      [] v.kind = "none" -> [raised |-> FALSE, s |-> <<"n", "u", "l", "l">>]
      [] v.kind = "list" ->
            LET parts == [i \in 1..Len(v.items) |-> json_dumps(v.items[i].v)]
            IN  [raised |-> \E i \in 1..Len(parts) : parts[i].raised,
                 s |-> <<"[">>
                       \o JoinWith(<<",", " ">>,
                                   [i \in 1..Len(parts) |-> parts[i].s])
                       \o <<"]">>]
      [] v.kind = "dict" ->
            LET parts == [i \in 1..Len(v.items) |-> json_dumps(v.items[i].v)]
            IN  [raised |-> \E i \in 1..Len(parts) : parts[i].raised,
                 s |-> <<"{">>
                       \o JoinWith(<<",", " ">>,
                                   [i \in 1..Len(parts) |->
                                      JsonString(v.items[i].k)
                                      \o <<":", " ">> \o parts[i].s])
                       \o <<"}">>]
      [] OTHER -> [raised |-> TRUE, s |-> <<>>]

\* repr() of a str: single-quoted (no quote or backslash in it here)
ReprString(s) == <<"'">> \o s \o <<"'">>

RECURSIVE repr(_)
\* repr(v), as str() of a list shows its elements
repr(v) ==
    CASE v.kind = "str" -> ReprString(v.s)
      [] v.kind = "int" -> Digits(v.n)
      [] v.kind = "bool" -> IF v.n = 1 THEN <<"T", "r", "u", "e">> ELSE <<"F", "a", "l", "s", "e">>
      [] v.kind = "none" -> <<"N", "o", "n", "e">>
      [] v.kind = "list" ->
            <<"[">>
            \o JoinWith(<<",", " ">>,
                        [i \in 1..Len(v.items) |-> repr(v.items[i].v)])
            \o <<"]">>
      [] v.kind = "dict" ->
            <<"{">>
            \o JoinWith(<<",", " ">>,
                        [i \in 1..Len(v.items) |->
                           ReprString(v.items[i].k) \o <<":", " ">>
                           \o repr(v.items[i].v)])
            \o <<"}">>
      [] OTHER -> <<"<", "o", "b", "j", "e", "c", "t", ">">>

\* str(v), as an f-string formats a value
str(v) == IF v.kind = "str" THEN v.s ELSE repr(v)

\* the display cut of every handler: [:2000]
MaxRendered == 2000

\* s[:n]
Truncate(s, n) == IF Len(s) <= n THEN s ELSE SubSeq(s, 1, n)

----------------------------------------------------------------------------
(* SecureMonitoringCallback *)

LLM_START == <<"L", "L", "M", " ", "S", "T", "A", "R", "T", " ", "-", " ", "P",
      "r", "o", "m", "p", "t", "s", ":", " ">>

LLM_END == <<"L", "L", "M", " ", "E", "N", "D", " ", "-", " ", "R", "e", "s",
      "p", "o", "n", "s", "e", ":", " ">>

CHAIN_START == <<"C", "H", "A", "I", "N", " ", "S", "T", "A", "R", "T", " ", "-",
      " ", "I", "n", "p", "u", "t", "s", ":", " ">>

ELLIPSIS == <<".", ".", ".">>

\* "LLM END - (Could not parse response text)"
FALLBACK_LINE ==
    <<"L", "L", "M", " ", "E", "N", "D", " ", "-", " ", "(", "C", "o",
      "u", "l", "d", " ", "n", "o", "t", " ", "p", "a", "r", "s", "e", " ",
      "r", "e", "s", "p", "o", "n", "s", "e", " ", "t", "e", "x", "t", ")">>

\* a handler that raised: nothing written
Raise == [raised |-> TRUE, lines |-> <<>>]

\* logger.info(line), the handler then returning
Info(line) == [raised |-> FALSE, lines |-> <<line>>]

\* on_llm_start(serialized, prompts), prompts a list: [raised, lines]
on_llm_start(prompts) ==
    LET masked == [i \in 1..Len(prompts.items) |->
                      mask_text(prompts.items[i].v)]
        dumped == json_dumps(List([i \in 1..Len(masked) |-> masked[i].val]))
    IN  IF \E i \in 1..Len(masked) : masked[i].raised THEN Raise
        ELSE IF dumped.raised THEN Raise
        ELSE Info(LLM_START \o Truncate(dumped.s, MaxRendered) \o ELLIPSIS)

\* obj.name: [raised, val]; only a plain object carries attributes here
GetAttr(obj, name) ==
    IF obj.kind = "object"
       /\ \E i \in 1..Len(obj.items) : obj.items[i].k = name
    THEN [raised |-> FALSE,
          val |-> obj.items[CHOOSE i \in 1..Len(obj.items) :
                                obj.items[i].k = name].v]
    ELSE [raised |-> TRUE, val |-> None]

\* v[0]: [raised, val]; a non-empty list or str has one, nothing else here
Index0(v) ==
    IF v.kind = "list" /\ v.items # <<>>
    THEN [raised |-> FALSE, val |-> v.items[1].v]
    ELSE IF v.kind = "str" /\ v.s # <<>>
    THEN [raised |-> FALSE, val |-> Str(<<v.s[1]>>)]
    ELSE [raised |-> TRUE, val |-> None]

\* the attribute names on_llm_end reads
GENERATIONS == <<"g", "e", "n", "e", "r", "a", "t", "i", "o", "n", "s">>

TEXT == <<"t", "e", "x", "t">>

\* response.generations[0][0].text: [raised, val]
ResponseText(response) ==
    LET gens == GetAttr(response, GENERATIONS)
        row == Index0(gens.val)
        gen == Index0(row.val)
        text == GetAttr(gen.val, TEXT)
    IN  IF gens.raised \/ row.raised \/ gen.raised
        THEN [raised |-> TRUE, val |-> None]
        ELSE text

\* v[:2000]: [raised, val]; str and list can be sliced
Slice2000(v) ==
    CASE v.kind = "str" ->
            [raised |-> FALSE, val |-> Str(Truncate(v.s, MaxRendered))]
      [] v.kind = "list" ->
            [raised |-> FALSE,
             val |-> [v EXCEPT !.items = Truncate(v.items, MaxRendered)]]
      [] OTHER -> [raised |-> TRUE, val |-> None]

\* the body of on_llm_end's try block: [raised, lines]
on_llm_end_try(response) ==
    LET text == ResponseText(response)
        masked == mask_text(text.val)
        shown == Slice2000(masked.val)
    IN  IF text.raised \/ masked.raised \/ shown.raised THEN Raise
        ELSE Info(LLM_END \o str(shown.val) \o ELLIPSIS)

\* on_llm_end with no try around its body
on_llm_end_uncaught(response) == on_llm_end_try(response)

\* on_llm_end(response): [raised, lines]
on_llm_end(response) ==
    IF on_llm_end_try(response).raised THEN Info(FALLBACK_LINE)
    ELSE on_llm_end_try(response)

\* on_chain_start(serialized, inputs): [raised, lines]; inputs.copy() is
\* there for a dict and a list
on_chain_start(inputs) ==
    IF inputs.kind \notin {"dict", "list"} THEN Raise
    ELSE LET dumped == json_dumps(mask_structure(inputs))
         IN  IF dumped.raised THEN Raise
             ELSE Info(CHAIN_START \o Truncate(dumped.s, MaxRendered)
                       \o ELLIPSIS)

----------------------------------------------------------------------------
(* The inputs the model draws from *)

\* every sequence over S of length at most n
SeqsUpTo(S, n) == UNION {[1..m -> S] : m \in 0..n}

NoRepeat(seq) == \A i, j \in 1..Len(seq) : i # j => seq[i] # seq[j]

\* texts mix both cases of a configured letter with a letter of its own
TextChars == {"b", "B", "c"}

Texts == SeqsUpTo(TextChars, MaxTextLen)

\* configured terms: the empty term, a term, a longer term it prefixes, and
\* a term that the text of the fallback token holds
TermPool == {<<>>, <<"b">>, <<"B", "c">>, <<"m">>}

TermLists == {ts \in SeqsUpTo(TermPool, MaxTerms) : NoRepeat(ts)}

\* token_map entries: a token of its own, and a token that spells its term
TokenEntries == {[term |-> <<"b", "c">>, token |-> <<"H", "A", "Z">>],
                 [term |-> <<"B">>, token |-> <<"B", "1">>]}

TokenMaps == {tm \in SeqsUpTo(TokenEntries, Cardinality(TokenEntries)) :
                 NoRepeat(tm)}

KeyLists == {<<>>, << <<"p">> >>}

\* the documents a configuration source can hold; an absent entry has no
\* content
Documents ==
    {[kind |-> k, present |-> {}, sensitive_keys |-> <<>>,
      sensitive_terms |-> <<>>, token_map |-> <<>>] :
        k \in {"missing", "malformed", "empty"}}
    \cup
    {d \in [kind : {"mapping"}, present : SUBSET EntryNames,
            sensitive_keys : KeyLists, sensitive_terms : TermLists,
            token_map : TokenMaps] :
        /\ "sensitive_keys" \notin d.present => d.sensitive_keys = <<>>
        /\ "sensitive_terms" \notin d.present => d.sensitive_terms = <<>>
        /\ "token_map" \notin d.present => d.token_map = <<>>}

\* payload keys: one that configurations list as sensitive, and one that
\* spells a configured term
PayloadKeys == {<<"p">>, <<"b">>}

\* a string that holds a term, a number and null
Leaves == {Str(<<"b", "c">>), Int(5), None}

Entries(vals) == {[k |-> k, v |-> v] : k \in PayloadKeys, v \in vals}

NoRepeatKey(kvs) == \A i, j \in 1..Len(kvs) : i # j => kvs[i].k # kvs[j].k

ListsOf(vals, n) == {List(vs) : vs \in SeqsUpTo(vals, n)}

DictsOf(vals, n) ==
    {Dict(kvs) : kvs \in {x \in SeqsUpTo(Entries(vals), n) : NoRepeatKey(x)}}

\* lists and dicts of leaves
Level1 == ListsOf(Leaves, MaxWidth) \cup DictsOf(Leaves, MaxWidth)

\* one list or dict around a list or dict of leaves
Level2 == ListsOf(Level1, 1) \cup DictsOf(Level1, 1)

Structures == Leaves \cup Level1 \cup Level2

----------------------------------------------------------------------------
(* The engine on its own: construction and direct calls *)

Init ==
    /\ source \in Documents
    /\ engine = NoEngine("unbuilt", "")
    /\ op = "none"
    /\ arg = None
    /\ ret = None
    /\ raised = FALSE
    /\ log = <<>>
    /\ heap = <<>>

\* MaskingService(config_path)
Construct ==
    /\ engine.state = "unbuilt"
    /\ engine' = MaskingService_init(source)
    /\ op' = "idle"
    /\ raised' = (MaskingService_init(source).state = "failed")
    /\ UNCHANGED <<source, arg, ret, log, heap>>

\* masker.mask_text(text)
MaskText ==
    /\ engine.state = "ready"
    /\ op = "idle"
    /\ \E t \in Texts :
        /\ arg' = Str(t)
        /\ ret' = mask_text(Str(t)).val
        /\ raised' = mask_text(Str(t)).raised
    /\ op' = "mask_text"
    /\ UNCHANGED <<source, engine, log, heap>>

\* masker.mask_structure(data)
MaskStructure ==
    /\ engine.state = "ready"
    /\ op = "idle"
    /\ \E d \in Structures :
        /\ arg' = d
        /\ ret' = mask_structure(d)
    /\ raised' = FALSE
    /\ op' = "mask_structure"
    /\ UNCHANGED <<source, engine, log, heap>>

\* the call is over: the caller has its result and the engine is idle again
Return ==
    /\ op \notin {"none", "idle"}
    /\ op' = "idle"
    /\ arg' = None
    /\ ret' = None
    /\ raised' = FALSE
    /\ UNCHANGED <<source, engine, log, heap>>

NextEngine == Construct \/ MaskText \/ MaskStructure \/ Return

SpecEngine == Init /\ [][NextEngine]_vars

----------------------------------------------------------------------------
(* The interceptor on an engine: the three handlers and the log sink *)

\* the configurations the interceptor is run on: every entry present, the
\* two overlapping terms in either order, every token map, either key list
MonitorDocuments ==
    {d \in Documents :
        /\ d.kind = "mapping"
        /\ d.present = EntryNames
        /\ \A i \in 1..Len(d.sensitive_terms) :
              d.sensitive_terms[i] \in {<<"b">>, <<"B", "c">>}}

\* what a prompt list can hold: a prompt, and something that is no string
PromptPool == {Str(<<"B", "c">>), Int(5)}

PromptLists == ListsOf(PromptPool, MaxPrompts)

\* what the text attribute of a generation can hold
TextPool == {Str(<<"b", "B", "c">>), Str(<<>>), None, Int(5),
             List(<<>>), List(<<Str(<<"b", "c">>)>>)}

Generation(text) == Obj(<<[k |-> TEXT, v |-> text]>>)

Response(generations) == Obj(<<[k |-> GENERATIONS, v |-> generations]>>)

\* responses: no generations, no row, no generation, no text, and a text
Responses ==
    {Obj(<<>>), Response(None), Response(List(<<>>)),
     Response(List(<<List(<<>>)>>)), Response(List(<<List(<<Obj(<<>>)>>)>>))}
    \cup {Response(List(<<List(<<Generation(t)>>)>>)) : t \in TextPool}

\* what a chain input can hold under a key: a string, an object json cannot
\* serialize, and a mapping
ChainLeaves == {Str(<<"b", "c">>), Obj(<<>>),
                Dict(<<[k |-> <<"b">>, v |-> Str(<<"b", "c">>)]>>)}

\* chain inputs: mappings, and inputs that are no mapping
ChainInputs ==
    DictsOf(ChainLeaves, 1)
    \cup {Dict(<<[k |-> <<"p">>, v |-> Str(<<"c">>)],
                 [k |-> <<"b">>, v |-> Bool(TRUE)]>>),
          Str(<<"b", "c">>), Int(5), List(<<Str(<<"b", "c">>)>>)}

InitMonitor ==
    /\ source \in MonitorDocuments
    /\ engine = NoEngine("unbuilt", "")
    /\ op = "none"
    /\ arg = None
    /\ ret = None
    /\ raised = FALSE
    /\ log = <<>>
    /\ heap = <<>>

\* callback.on_llm_start(serialized, prompts)
OnLlmStart ==
    /\ engine.state = "ready"
    /\ op = "idle"
    /\ Len(log) < MaxLog
    /\ \E prompts \in PromptLists :
        /\ arg' = prompts
        /\ raised' = on_llm_start(prompts).raised
        /\ log' = log \o on_llm_start(prompts).lines
    /\ op' = "on_llm_start"
    /\ ret' = None
    /\ UNCHANGED <<source, engine, heap>>

\* callback.on_llm_end(response)
OnLlmEnd ==
    /\ engine.state = "ready"
    /\ op = "idle"
    /\ Len(log) < MaxLog
    /\ \E response \in Responses :
        /\ arg' = response
        /\ raised' = on_llm_end(response).raised
        /\ log' = log \o on_llm_end(response).lines
    /\ op' = "on_llm_end"
    /\ ret' = None
    /\ UNCHANGED <<source, engine, heap>>

\* callback.on_chain_start(serialized, inputs)
OnChainStart ==
    /\ engine.state = "ready"
    /\ op = "idle"
    /\ Len(log) < MaxLog
    /\ \E inputs \in ChainInputs :
        /\ arg' = inputs
        /\ raised' = on_chain_start(inputs).raised
        /\ log' = log \o on_chain_start(inputs).lines
    /\ op' = "on_chain_start"
    /\ ret' = None
    /\ UNCHANGED <<source, engine, heap>>

NextMonitor == Construct \/ OnLlmStart \/ OnLlmEnd \/ OnChainStart \/ Return

SpecMonitor == InitMonitor /\ [][NextMonitor]_vars

----------------------------------------------------------------------------
(* Payloads as objects: the engine and the handlers on a heap *)

\* a reference to the object at address a
Ref(a) == [kind |-> "ref", n |-> a, s |-> <<>>, items |-> <<>>]

\* isinstance(v, dict), isinstance(v, list) on a value that may be a reference
IsInstance(h, v, kind) == v.kind = "ref" /\ h[v.n].kind = kind

RECURSIVE Deref(_, _)
\* the value a reference stands for, read from the heap at every level
Deref(h, v) ==
    IF v.kind # "ref" THEN v
    ELSE [kind |-> h[v.n].kind, n |-> 0, s |-> <<>>,
          items |-> [i \in 1..Len(h[v.n].items) |->
                        [k |-> h[v.n].items[i].k,
                         v |-> Deref(h, h[v.n].items[i].v)]]]

RECURSIVE Build(_, _)
RECURSIVE BuildItems(_, _)
\* the caller constructing a payload: the entries first, then their container
BuildItems(h, items) ==
    IF items = <<>> THEN [heap |-> h, items |-> <<>>]
    ELSE LET first == Build(h, Head(items).v)
             rest == BuildItems(first.heap, Tail(items))
         IN  [heap |-> rest.heap,
              items |-> <<[k |-> Head(items).k, v |-> first.val]>>
                        \o rest.items]

Build(h, v) ==
    IF v.kind \notin {"dict", "list", "object"} THEN [heap |-> h, val |-> v]
    ELSE LET b == BuildItems(h, v.items)
         IN  [heap |-> Append(b.heap, [kind |-> v.kind, items |-> b.items]),
              val |-> Ref(Len(b.heap) + 1)]

\* d[k] = v on the dict at address a: a present key keeps its place
SetItem(h, a, k, v) ==
    LET items == h[a].items
        at == {i \in 1..Len(items) : items[i].k = k}
    IN  [h EXCEPT ![a].items =
            IF at = {} THEN Append(items, [k |-> k, v |-> v])
            ELSE [i \in 1..Len(items) |->
                     IF i \in at THEN [k |-> k, v |-> v] ELSE items[i]]]

\* the comprehension appending one element to the list at address a
ListAppend(h, a, v) ==
    [h EXCEPT ![a].items = Append(h[a].items, [k |-> <<>>, v |-> v])]

\* the entries written back into the dict they are read from
new_dict_in_place(h, data) == [heap |-> h, at |-> data]

\* new_dict = {}: [heap, at], at the address of the new dict
new_dict(h, data) ==
    [heap |-> Append(h, [kind |-> "dict", items |-> <<>>]), at |-> Len(h) + 1]

\* the list a comprehension starts from: [heap, at]
new_list(h, data) ==
    [heap |-> Append(h, [kind |-> "list", items |-> <<>>]), at |-> Len(h) + 1]

RECURSIVE mask_structure_at(_, _)
RECURSIVE MaskEntriesFrom(_, _, _, _)
RECURSIVE MaskItemsFrom(_, _, _, _)

\* for k, v in data.items(): from entry i on, the dict at src read and the
\* dict at new written; the heap after the loop
MaskEntriesFrom(h, src, new, i) ==
    IF i > Len(h[src].items) THEN h
    ELSE LET e == h[src].items[i]
         IN  IF e.k \in engine.sensitive_keys
             THEN MaskEntriesFrom(SetItem(h, new, e.k, Str(MASKED_VALUE)),
                                  src, new, i + 1)
             ELSE LET r == mask_structure_at(h, e.v)
                  IN  MaskEntriesFrom(SetItem(r.heap, new, e.k, r.val),
                                      src, new, i + 1)

\* [self.mask_structure(item) for item in data]: from element i on
MaskItemsFrom(h, src, new, i) ==
    IF i > Len(h[src].items) THEN h
    ELSE LET r == mask_structure_at(h, h[src].items[i].v)
         IN  MaskItemsFrom(ListAppend(r.heap, new, r.val), src, new, i + 1)

\* mask_structure(data) on the heap: [heap, val], the heap after the call
\* and the value returned
mask_structure_at(h, data) ==
    CASE IsInstance(h, data, "dict") ->
            LET d == new_dict(h, data.n)
            IN  [heap |-> MaskEntriesFrom(d.heap, data.n, d.at, 1),
                 val |-> Ref(d.at)]
      [] IsInstance(h, data, "list") ->
            LET l == new_list(h, data.n)
            IN  [heap |-> MaskItemsFrom(l.heap, data.n, l.at, 1),
                 val |-> Ref(l.at)]
      [] data.kind = "str" -> [heap |-> h, val |-> mask_text(data).val]
      [] OTHER -> [heap |-> h, val |-> data]

\* mask_text(text) on a value that may be a reference: [raised, val]; what
\* mask_text returns unmasked is the argument itself
mask_text_at(h, text) ==
    IF text.kind # "ref" THEN mask_text(text)
    ELSE IF mask_text(Deref(h, text)).raised
    THEN [raised |-> TRUE, val |-> None]
    ELSE [raised |-> FALSE, val |-> text]

RECURSIVE MaskPromptsFrom(_, _, _, _)
\* [self.masker.mask_text(p) for p in prompts]: from prompt i on;
\* [heap, raised]
MaskPromptsFrom(h, src, new, i) ==
    IF i > Len(h[src].items) THEN [heap |-> h, raised |-> FALSE]
    ELSE LET m == mask_text_at(h, h[src].items[i].v)
         IN  IF m.raised THEN [heap |-> h, raised |-> TRUE]
             ELSE MaskPromptsFrom(ListAppend(h, new, m.val), src, new, i + 1)

\* on_llm_start(serialized, prompts), prompts the list at an address:
\* [heap, raised, lines]
on_llm_start_at(h, prompts) ==
    LET l == new_list(h, prompts.n)
        m == MaskPromptsFrom(l.heap, prompts.n, l.at, 1)
        dumped == json_dumps(Deref(m.heap, Ref(l.at)))
    IN  IF m.raised \/ dumped.raised
        THEN [heap |-> m.heap, raised |-> TRUE, lines |-> <<>>]
        ELSE [heap |-> m.heap, raised |-> FALSE,
              lines |-> <<LLM_START \o Truncate(dumped.s, MaxRendered)
                          \o ELLIPSIS>>]

\* on_llm_end(response): attribute reads, indexing and a slice, none of
\* which stores into an object
on_llm_end_at(h, response) ==
    [heap |-> h,
     raised |-> on_llm_end(Deref(h, response)).raised,
     lines |-> on_llm_end(Deref(h, response)).lines]

\* inputs.copy(): [heap, raised, val]; a dict and a list have a shallow copy,
\* whose entries are the entries of the original
shallow_copy(h, inputs) ==
    IF IsInstance(h, inputs, "dict") \/ IsInstance(h, inputs, "list")
    THEN [heap |-> Append(h, h[inputs.n]), raised |-> FALSE,
          val |-> Ref(Len(h) + 1)]
    ELSE [heap |-> h, raised |-> TRUE, val |-> None]

\* on_chain_start(serialized, inputs): [heap, raised, lines]
on_chain_start_at(h, inputs) ==
    LET safe_inputs == shallow_copy(h, inputs)
        masked_inputs == mask_structure_at(safe_inputs.heap, safe_inputs.val)
        dumped == json_dumps(Deref(masked_inputs.heap, masked_inputs.val))
    IN  IF safe_inputs.raised
        THEN [heap |-> h, raised |-> TRUE, lines |-> <<>>]
        ELSE IF dumped.raised
        THEN [heap |-> masked_inputs.heap, raised |-> TRUE, lines |-> <<>>]
        ELSE [heap |-> masked_inputs.heap, raised |-> FALSE,
              lines |-> <<CHAIN_START \o Truncate(dumped.s, MaxRendered)
                          \o ELLIPSIS>>]

----------------------------------------------------------------------------
(* The engine and the interceptor on payloads that live in the heap *)

\* the configurations: both terms, either key list, no token map
HeapDocuments == {d \in MonitorDocuments : d.token_map = <<>>}

\* the payloads the caller holds: nested inputs with a sensitive key, a
\* prompt list, a list that holds a mapping, an object inside a mapping,
\* and two responses
HeapPayloads ==
    {Dict(<<[k |-> <<"p">>, v |-> Str(<<"b", "c">>)],
            [k |-> <<"b">>, v |-> List(<<Str(<<"B", "c">>)>>)]>>),
     List(<<Str(<<"B", "c">>), Str(<<"c">>)>>),
     List(<<Str(<<"b", "c">>),
            Dict(<<[k |-> <<"b">>, v |-> Str(<<"b", "c">>)]>>)>>),
     Dict(<<[k |-> <<"b">>, v |-> Obj(<<>>)]>>),
     Response(List(<<>>)),
     Response(List(<<List(<<Generation(Str(<<"b", "B", "c">>))>>)>>))}

\* what a call can be handed: any object of the heap, at any nesting level
\* of a payload or of an earlier result, and a string
Roots == {Ref(a) : a \in 1..Len(heap)} \cup {Str(<<"B", "c">>)}

InitHeap ==
    /\ source \in HeapDocuments
    /\ engine = NoEngine("unbuilt", "")
    /\ op = "none"
    /\ arg = None
    /\ ret = None
    /\ raised = FALSE
    /\ log = <<>>
    /\ heap \in {Build(<<>>, p).heap : p \in HeapPayloads}

\* masker.mask_text(text)
MaskTextAt ==
    /\ engine.state = "ready"
    /\ op = "idle"
    /\ \E text \in {v \in Roots : v.kind = "str"} :
        /\ arg' = text
        /\ ret' = mask_text_at(heap, text).val
        /\ raised' = mask_text_at(heap, text).raised
    /\ op' = "mask_text"
    /\ UNCHANGED <<source, engine, log, heap>>

\* masker.mask_structure(data)
MaskStructureAt ==
    /\ engine.state = "ready"
    /\ op = "idle"
    /\ Len(heap) <= MaxObjects
    /\ \E data \in Roots :
        /\ arg' = data
        /\ ret' = mask_structure_at(heap, data).val
        /\ heap' = mask_structure_at(heap, data).heap
    /\ raised' = FALSE
    /\ op' = "mask_structure"
    /\ UNCHANGED <<source, engine, log>>

\* callback.on_llm_start(serialized, prompts)
OnLlmStartAt ==
    /\ engine.state = "ready"
    /\ op = "idle"
    /\ Len(heap) <= MaxObjects
    /\ Len(log) < MaxLog
    /\ \E prompts \in {v \in Roots : IsInstance(heap, v, "list")} :
        /\ arg' = prompts
        /\ heap' = on_llm_start_at(heap, prompts).heap
        /\ raised' = on_llm_start_at(heap, prompts).raised
        /\ log' = log \o on_llm_start_at(heap, prompts).lines
    /\ op' = "on_llm_start"
    /\ ret' = None
    /\ UNCHANGED <<source, engine>>

\* callback.on_llm_end(response)
OnLlmEndAt ==
    /\ engine.state = "ready"
    /\ op = "idle"
    /\ Len(log) < MaxLog
    /\ \E response \in {v \in Roots : v.kind = "ref"} :
        /\ arg' = response
        /\ heap' = on_llm_end_at(heap, response).heap
        /\ raised' = on_llm_end_at(heap, response).raised
        /\ log' = log \o on_llm_end_at(heap, response).lines
    /\ op' = "on_llm_end"
    /\ ret' = None
    /\ UNCHANGED <<source, engine>>

\* callback.on_chain_start(serialized, inputs)
OnChainStartAt ==
    /\ engine.state = "ready"
    /\ op = "idle"
    /\ Len(heap) <= MaxObjects
    /\ Len(log) < MaxLog
    /\ \E inputs \in Roots :
        /\ arg' = inputs
        /\ heap' = on_chain_start_at(heap, inputs).heap
        /\ raised' = on_chain_start_at(heap, inputs).raised
        /\ log' = log \o on_chain_start_at(heap, inputs).lines
    /\ op' = "on_chain_start"
    /\ ret' = None
    /\ UNCHANGED <<source, engine>>

NextHeap ==
    \/ Construct
    \/ MaskTextAt
    \/ MaskStructureAt
    \/ OnLlmStartAt
    \/ OnLlmEndAt
    \/ OnChainStartAt
    \/ Return

SpecHeap == InitHeap /\ [][NextHeap]_vars

----------------------------------------------------------------------------
(* Properties of the engine *)

\* the matches pattern.sub replaces in a text
Matches(text) == finditer(engine.pattern.alts, text, 0, FALSE)

\* the text of match m
Matched(text, m) == Slice(text, m.start, m.start + m.len)

\* the configured terms that match the text at pos, ignoring case
TermsAt(text, pos) ==
    {i \in 1..Len(engine.sensitive_terms) :
        MatchesAt(engine.sensitive_terms[i], text, pos)}

IsPrefix(p, s) == Len(p) <= Len(s) /\ \A i \in 1..Len(p) : p[i] = s[i]

\* C2: longest-match-first. Every span mask_text replaces is as long as the
\* longest configured term that matches, ignoring case, where the span
\* starts; and when a term matches at the start of the text, the result
\* starts with the token of the longest such term.
C2_LongestMatchFirst ==
    (op = "mask_text" /\ engine.pattern.compiled /\ arg.s # <<>>) =>
        LET ms == Matches(arg.s)
            terms == engine.sensitive_terms
            first == TermsAt(arg.s, 0)
        IN  /\ \A j \in 1..Len(ms) :
                  \A i \in TermsAt(arg.s, ms[j].start) :
                      Len(terms[i]) <= ms[j].len
            /\ \A i \in first :
                  (\A k \in first : Len(terms[k]) <= Len(terms[i]))
                  => IsPrefix(replace_match(Slice(arg.s, 0, Len(terms[i]))),
                              ret.s)

\* C2 witness: the short term is configured before the long one it prefixes,
\* and the long one is what was replaced
C2_Witness ==
    /\ op = "mask_text"
    /\ engine.sensitive_terms = << <<"b">>, <<"B", "c">> >>
    /\ engine.token_map = <<[term |-> <<"b", "c">>, token |-> <<"H", "A", "Z">>]>>
    /\ arg.s = <<"b", "c", "c">>
    /\ ret.s = <<"[", "H", "A", "Z", "]", "c">>

RECURSIVE KeyPrecedence(_, _)
\* in r, every entry of v under a sensitive key, at any depth, is the marker
KeyPrecedence(v, r) ==
    CASE v.kind = "dict" ->
            /\ r.kind = "dict"
            /\ Len(r.items) = Len(v.items)
            /\ \A i \in 1..Len(v.items) :
                  IF v.items[i].k \in engine.sensitive_keys
                  THEN r.items[i] = [k |-> v.items[i].k, v |-> Str(MASKED_VALUE)]
                  ELSE KeyPrecedence(v.items[i].v, r.items[i].v)
      [] v.kind = "list" ->
            /\ r.kind = "list"
            /\ Len(r.items) = Len(v.items)
            /\ \A i \in 1..Len(v.items) :
                  KeyPrecedence(v.items[i].v, r.items[i].v)
      [] OTHER -> TRUE

\* C3: key precedence over recursion. In the result of mask_structure every
\* mapping entry whose key is sensitive, at any depth, holds exactly the
\* string "[MASKED_VALUE]", whatever kind of value it held.
C3_KeyPrecedence ==
    op = "mask_structure" => KeyPrecedence(arg, ret)

\* C3 witness: a mapping holding a term sits under a sensitive key
C3_Witness ==
    /\ op = "mask_structure"
    /\ <<"p">> \in engine.sensitive_keys
    /\ <<"B", "c">> \in {engine.sensitive_terms[i] :
                            i \in 1..Len(engine.sensitive_terms)}
    /\ arg = Dict(<<[k |-> <<"p">>,
                     v |-> Dict(<<[k |-> <<"b">>, v |-> Str(<<"b", "c">>)]>>)]>>)
    /\ ret = Dict(<<[k |-> <<"p">>, v |-> Str(MASKED_VALUE)]>>)

\* the configuration's tokens can be told from its terms: no term is empty
\* or holds a bracket, and no term occurs, ignoring case, in the text of a
\* token the engine can emit (a token_map value, or MASKED_TERM)
TokensNeverMatch ==
    \A i \in 1..Len(engine.sensitive_terms) :
        LET term == engine.sensitive_terms[i]
        IN  /\ term # <<>>
            /\ \A j \in 1..Len(term) : term[j] \notin {"[", "]"}
            /\ ~Contains(Lower(term), Lower(MASKED_TERM))
            /\ \A j \in 1..Len(engine.token_map) :
                  ~Contains(Lower(term), Lower(engine.token_map[j].token))

\* C6 as claimed: mask_text(mask_text(x)) = mask_text(x) for every
\* configuration and every text x.
C6_IdempotentAlways ==
    op = "mask_text" => mask_text(ret).val = ret

\* C6, amended: mask_text(mask_text(x)) = mask_text(x) for every text x
\* under every configuration whose terms are non-empty, hold no bracket and
\* do not occur, ignoring case, in the text of any token the engine emits.
C6_IdempotentWhenTokensNeverMatch ==
    (op = "mask_text" /\ TokensNeverMatch) => mask_text(ret).val = ret

\* C6 witness: two terms were replaced, one by a token of the map and one by
\* the fallback token, and no term matches a token
C6_Witness ==
    /\ op = "mask_text"
    /\ TokensNeverMatch
    /\ engine.sensitive_terms = << <<"b">>, <<"B", "c">> >>
    /\ arg.s = <<"B", "c", "b">>
    /\ ret.s = <<"[", "H", "A", "Z", "]", "[">> \o MASKED_TERM \o <<"]">>

\* the texts that differ from text in letter case only
CaseVariants(text) ==
    {y \in [1..Len(text) -> TextChars] :
        \A i \in 1..Len(text) : LowerChar(y[i]) = LowerChar(text[i])}

RECURSIVE SpanLenUpTo(_, _, _)
\* the characters of text that the matches starting at or before p span
SpanLenUpTo(text, ms, p) ==
    IF ms = <<>> \/ ms[1].start > p THEN 0
    ELSE ms[1].len + SpanLenUpTo(text, Tail(ms), p)

RECURSIVE TokenLenUpTo(_, _, _)
\* the characters of the tokens that replace the matches starting at or
\* before p
TokenLenUpTo(text, ms, p) ==
    IF ms = <<>> \/ ms[1].start > p THEN 0
    ELSE Len(replace_match(Matched(text, ms[1])))
         + TokenLenUpTo(text, Tail(ms), p)

\* position p (0-based) of text lies in no match
Unmatched(ms, p) ==
    \A j \in 1..Len(ms) : ~(ms[j].start <= p /\ p < ms[j].start + ms[j].len)

\* every character of text outside the matches stands unchanged in out,
\* moved by the replacements before it
OutsideKept(text, out) ==
    LET ms == Matches(text)
    IN  \A p \in 0..(Len(text) - 1) :
            Unmatched(ms, p) =>
                LET q == (p - SpanLenUpTo(text, ms, p))
                         + TokenLenUpTo(text, ms, p) + 1
                IN  q <= Len(out) /\ out[q] = text[p + 1]

\* C7: case insensitivity. Two texts that differ only in letter case have
\* the same spans replaced, by the same tokens; results agree up to the case
\* of the text outside the spans, which stands as it was; and the casings of
\* a text that is one match give one and the same result.
C7_CaseInsensitive ==
    op = "mask_text" =>
        LET ms == Matches(arg.s)
        IN  /\ OutsideKept(arg.s, ret.s)
            /\ \A y \in CaseVariants(arg.s) :
                  LET masked == mask_text(Str(y)).val
                  IN  /\ Matches(y) = ms
                      /\ \A j \in 1..Len(ms) :
                            replace_match(Matched(y, ms[j]))
                                = replace_match(Matched(arg.s, ms[j]))
                      /\ Lower(masked.s) = Lower(ret.s)
                      /\ (ms = <<[start |-> 0, len |-> Len(y)]>>
                            => masked = ret)

\* C7 witness: an upper-case spelling of a term was replaced by the token of
\* a lower-case token_map entry, the text around it kept
C7_Witness ==
    /\ op = "mask_text"
    /\ engine.sensitive_terms = << <<"B", "c">> >>
    /\ engine.token_map = <<[term |-> <<"b", "c">>, token |-> <<"H", "A", "Z">>]>>
    /\ arg.s = <<"B", "b", "c">>
    /\ ret.s = <<"B", "[", "H", "A", "Z", "]">>

\* C8: an empty configuration is a no-op. With no sensitive terms the engine
\* holds no matcher and mask_text returns its input, the empty string
\* included; with no sensitive keys as well mask_structure returns a value
\* equal to its input.
C8_EmptyConfigNoOp ==
    (engine.state = "ready" /\ engine.sensitive_terms = <<>>) =>
        /\ ~engine.pattern.compiled
        /\ op = "mask_text" => ret = arg /\ ~raised
        /\ (op = "mask_structure" /\ engine.sensitive_keys = {}) => ret = arg

\* C8 witness: a text passed through an engine built from a document with
\* three empty entries
C8_Witness ==
    /\ op = "mask_text"
    /\ source.kind = "mapping" /\ source.present = EntryNames
    /\ engine.sensitive_terms = <<>> /\ engine.token_map = <<>>
    /\ engine.sensitive_keys = {}
    /\ arg.s = <<"b", "c", "B">>
    /\ ret = arg

RECURSIVE ShapePreserved(_, _)
\* r is v with, at most, string leaves masked and values under sensitive
\* keys replaced
ShapePreserved(v, r) ==
    CASE v.kind = "dict" ->
            /\ r.kind = "dict"
            /\ Len(r.items) = Len(v.items)
            /\ \A i \in 1..Len(v.items) :
                  /\ r.items[i].k = v.items[i].k
                  /\ v.items[i].k \notin engine.sensitive_keys
                        => ShapePreserved(v.items[i].v, r.items[i].v)
      [] v.kind = "list" ->
            /\ r.kind = "list"
            /\ Len(r.items) = Len(v.items)
            /\ \A i \in 1..Len(v.items) :
                  ShapePreserved(v.items[i].v, r.items[i].v)
      [] v.kind = "str" -> r = mask_text(v).val
      [] OTHER -> r = v

\* C9: mask_structure preserves shape. Every mapping of the result has the
\* keys of the input's in the same order, every sequence the same length and
\* order with the operation applied to each element, every non-string scalar
\* is the input's; only string leaves and values under sensitive keys differ.
C9_ShapePreserved ==
    op = "mask_structure" => ShapePreserved(arg, ret)

\* C9 witness: a two-entry mapping, a scalar first and a sensitive key
\* second, comes back with both keys in that order
C9_Witness ==
    /\ op = "mask_structure"
    /\ <<"p">> \in engine.sensitive_keys
    /\ arg = Dict(<<[k |-> <<"b">>, v |-> Int(5)],
                    [k |-> <<"p">>, v |-> Str(<<"b", "c">>)]>>)
    /\ ret = Dict(<<[k |-> <<"b">>, v |-> Int(5)],
                    [k |-> <<"p">>, v |-> Str(MASKED_VALUE)]>>)

\* C10 as claimed: construction succeeds for every document that parses,
\* the empty document included, each missing entry taken as empty; it fails
\* only for a missing or malformed source.
C10_ConfigDefaults ==
    engine.state # "unbuilt" =>
        /\ engine.state = "failed"
              <=> source.kind \in {"missing", "malformed"}
        /\ engine.state = "ready" =>
              /\ "sensitive_keys" \notin source.present
                    => engine.sensitive_keys = {}
              /\ "sensitive_terms" \notin source.present
                    => engine.sensitive_terms = <<>> /\ ~engine.pattern.compiled
              /\ "token_map" \notin source.present => engine.token_map = <<>>

----------------------------------------------------------------------------
(* Properties of the interceptor *)

Handlers == {"on_llm_start", "on_llm_end", "on_chain_start"}

\* needle occurs in haystack, ignoring case
ContainsCI(needle, haystack) == Contains(Lower(needle), Lower(haystack))

RECURSIVE AllStrings(_)
\* every string and every key in a value
AllStrings(v) ==
    CASE v.kind = "str" -> {v.s}
      [] v.kind = "dict" ->
            UNION {{v.items[i].k} \cup AllStrings(v.items[i].v) :
                      i \in 1..Len(v.items)}
      [] v.kind \in {"list", "object"} ->
            UNION {AllStrings(v.items[i].v) : i \in 1..Len(v.items)}
      [] OTHER -> {}

RECURSIVE SensitiveStrings(_)
\* the strings and keys held in values under a sensitive key
SensitiveStrings(v) ==
    CASE v.kind = "dict" ->
            UNION {IF v.items[i].k \in engine.sensitive_keys
                   THEN AllStrings(v.items[i].v)
                   ELSE SensitiveStrings(v.items[i].v) :
                      i \in 1..Len(v.items)}
      [] v.kind \in {"list", "object"} ->
            UNION {SensitiveStrings(v.items[i].v) : i \in 1..Len(v.items)}
      [] OTHER -> {}

RECURSIVE SafeStrings(_)
\* the strings and keys of a value that are not under a sensitive key
SafeStrings(v) ==
    CASE v.kind = "str" -> {v.s}
      [] v.kind = "dict" ->
            UNION {{v.items[i].k} \cup
                   (IF v.items[i].k \in engine.sensitive_keys THEN {}
                    ELSE SafeStrings(v.items[i].v)) :
                      i \in 1..Len(v.items)}
      [] v.kind \in {"list", "object"} ->
            UNION {SafeStrings(v.items[i].v) : i \in 1..Len(v.items)}
      [] OTHER -> {}

\* C1 as claimed: the line a handler writes holds no occurrence, ignoring
\* case, of a configured sensitive term that the payload holds (in a string
\* at any depth or in a mapping key), and nothing of what the payload holds
\* under a sensitive key only.
C1_NoSensitiveTermLogged ==
    (op \in Handlers /\ ~raised /\ log # <<>>) =>
        /\ \A i \in 1..Len(engine.sensitive_terms) :
              (/\ engine.sensitive_terms[i] # <<>>
               /\ \E str_ \in AllStrings(arg) :
                     ContainsCI(engine.sensitive_terms[i], str_))
              => ~ContainsCI(engine.sensitive_terms[i], log[Len(log)])
        /\ \A hidden \in SensitiveStrings(arg) :
              (/\ hidden # <<>>
               /\ \A shown \in SafeStrings(arg) : ~ContainsCI(hidden, shown))
              => ~ContainsCI(hidden, log[Len(log)])

\* C4 as claimed: no handler raises into the call chain; whatever the
\* payload, the handler writes a line and returns.
C4_NoHandlerRaises ==
    op \in Handlers => ~raised /\ log # <<>>

\* a text that is no string, that mask_text hands back as it is and that
\* [:2000] can slice
PassedThroughSliceable(text) ==
    /\ text.kind = "list"
    /\ (~engine.pattern.compiled \/ text.items = <<>>)

\* C5 as claimed: a response that does not yield the primary generated
\* text (no generations, an empty list, no text, a text that is no string)
\* gives the fixed fallback line and no error.
C5_FallbackOnEveryBadShape ==
    (op = "on_llm_end"
     /\ (ResponseText(arg).raised \/ ResponseText(arg).val.kind # "str")) =>
        ~raised /\ log # <<>> /\ log[Len(log)] = FALLBACK_LINE

\* C5, amended: on_llm_end always writes exactly one line and raises
\* nothing. The line is the fixed fallback message when the response has no
\* generations, no first row, no first generation or no text, and when the
\* text is no string, unless that text can be sliced and mask_text hands it
\* back (no matcher is held, or the text is empty): then the one line is the
\* response line showing that value.
C5_FallbackSafety ==
    [][(op = "idle" /\ op' = "on_llm_end") =>
          /\ ~raised'
          /\ Len(log') = Len(log) + 1
          /\ SubSeq(log', 1, Len(log)) = log
          /\ (\/ ResponseText(arg').raised
              \/ /\ ResponseText(arg').val.kind # "str"
                 /\ ~PassedThroughSliceable(ResponseText(arg').val))
                => log'[Len(log')] = FALLBACK_LINE
          /\ (/\ ~ResponseText(arg').raised
              /\ ResponseText(arg').val.kind # "str"
              /\ PassedThroughSliceable(ResponseText(arg').val))
                => log'[Len(log')] =
                      LLM_END \o str(ResponseText(arg').val) \o ELLIPSIS
      ]_vars

\* C5 witness: a response whose text is a number got the fallback line as
\* the second line of the log
C5_Witness ==
    /\ op = "on_llm_end"
    /\ arg = Response(List(<<List(<<Generation(Int(5))>>)>>))
    /\ ~raised
    /\ Len(log) = 2
    /\ log[2] = FALLBACK_LINE

----------------------------------------------------------------------------
(* Properties of payloads and engine state as objects *)

\* the operations a caller invokes on a constructed engine
Calls == {"mask_text", "mask_structure"} \cup Handlers

RECURSIVE NewlyBuilt(_, _, _)
\* every dict and list of the value, at every nesting level, was allocated
\* after the heap held `old` objects
NewlyBuilt(h, v, old) ==
    IF v.kind = "ref" /\ h[v.n].kind \in {"dict", "list"}
    THEN /\ v.n > old
         /\ \A i \in 1..Len(h[v.n].items) :
               NewlyBuilt(h, h[v.n].items[i].v, old)
    ELSE TRUE

\* C11: payloads and engine state are never mutated. Across every call of
\* mask_text, mask_structure, on_llm_start, on_llm_end and on_chain_start,
\* in any sequence, every object that existed before the call (so every
\* payload, at every nesting level) holds after the call what it held
\* before it, the dicts and lists mask_structure returns are all allocated
\* by the call, and the engine's sensitive_keys, sensitive_terms, token_map
\* and compiled pattern are at every point what construction made them.
C11_NeverMutated ==
    /\ [](engine.state = "ready" => engine = MaskingService_init(source))
    /\ [][(op = "idle" /\ op' \in Calls) =>
            /\ Len(heap') >= Len(heap)
            /\ \A a \in 1..Len(heap) : heap'[a] = heap[a]
            /\ engine' = engine
            /\ (op' = "mask_structure" =>
                    NewlyBuilt(heap', ret', Len(heap)))
         ]_vars

\* a handler has logged, and then mask_structure was called on a mapping
\* that holds a sequence and returned a masked mapping that differs from it
C11_Witness ==
    /\ op = "mask_structure"
    /\ log # <<>>
    /\ IsInstance(heap, arg, "dict")
    /\ \E i \in 1..Len(heap[arg.n].items) :
          IsInstance(heap, heap[arg.n].items[i].v, "list")
    /\ IsInstance(heap, ret, "dict")
    /\ Deref(heap, ret) # Deref(heap, arg)

============================================================================
